---- MODULE Spec2Model ----
(***************************************************************************)
(* Model of src/index.py, the Real-Debrid MCP server (OAuth device flow).  *)
(*                                                                         *)
(* The server is one asyncio process.  Every tool invocation is a          *)
(* coroutine; the code between two awaits runs atomically, and every       *)
(* await of a remote call is a suspension point at which other coroutines  *)
(* run.  One action models one such atomic segment of one handler.  The    *)
(* remote OAuth provider and the remote REST API are the environment:      *)
(* their answers are chosen nondeterministically.                          *)
(***************************************************************************)
EXTENDS Integers, FiniteSets, Sequences, TLC

(* ------------------------------ bounds -------------------------------- *)
NumReqs == 2        \* coroutines that can be in flight at the same time
MaxChecks == 2      \* oauth_check invocations in one behaviour
MaxTime == 2        \* last clock tick
TicksPerSec == 2    \* clock ticks per second (time.time() is sub-second)
NumDevices == 2     \* device codes the provider hands out
MaxTokens == 3      \* token responses the provider mints
MaxExpiresIn == 1   \* largest expires_in (seconds) the provider returns
NumRand == 2        \* distinct values of os.urandom(4) that are drawn

(* ---------------------------- constants ------------------------------- *)
DEFAULT_CLIENT_ID == "X245A4XAIBGVM"
RD_API_BASE == "https://api.real-debrid.com/rest/1.0"
RD_OAUTH_BASE == "https://api.real-debrid.com/oauth/v2"

Reqs == 1..NumReqs
Devices == 1..NumDevices
Rand == 0..(NumRand - 1)
ExpiresInVals == 1..MaxExpiresIn

\* int(time.time()): the clock truncated to whole seconds
IntTime(t) == t \div TicksPerSec

\* every session id f"session_{int(time.time())}_{os.urandom(4).hex()}" can take
SessionIds == (0..IntTime(MaxTime)) \X Rand

VARIABLES
    now,            \* time.time(), in ticks
    user_tokens,    \* the Token Store: session id -> credential record
    reqs,           \* the coroutines: position and locals of each
    devices,        \* provider: state of every device code
    nextTok,        \* provider: number of the next token response
    reply,          \* what the server answers in this step, if anything
    authorized,     \* oauth_check invocations that returned "authorized"
    checkLog        \* the completed oauth_check invocations, in order

vars == <<now, user_tokens, reqs, devices, nextTok, reply, authorized,
          checkLog>>

(* ------------------------- values of the locals ----------------------- *)
NoSid == <<-1, -1>>
NoCreds == [clientId |-> "", clientSecret |-> ""]
NoTokens == [accessToken |-> 0, refreshToken |-> 0, expiresIn |-> 0]
NoBody == [empty |-> TRUE]
NoRequest == [url |-> "", method |-> "", bearer |-> 0,
              client_id |-> "", client_secret |-> "", code |-> 0]
NoResponse == [status |-> 0, body |-> NoBody]
NoResult == [none |-> TRUE]

NoSession == [accessToken |-> 0, refreshToken |-> 0, expiresAt |-> 0,
              clientId |-> "", clientSecret |-> ""]

\* a coroutine: where it is suspended (pc), its arguments and its locals
Idle == [pc |-> "idle", op |-> "", device_code |-> 0, session_id |-> NoSid,
         session |-> NoSession, credentials |-> NoCreds,
         request |-> NoRequest, response |-> NoResponse]

SessionOps == {"get_user_info", "unrestrict_link", "list_torrents", "add_magnet"}

\* mutant: a lock taken for the refresh call is held by the whole server
Free_global_lock(r) ==
    /\ reqs[r].pc = "idle"
    /\ \A q \in Reqs :
        reqs[q].pc \notin {"refresh_access_token", "refresh_answered"}

\* a coroutine slot is free before an invocation and after its return
Free(r) == reqs[r].pc = "idle"

\* the answer a tool call sends: what was called, and what it returned or raised
Reply(op, device_code, session_id, res) ==
    [op |-> op, device_code |-> device_code, session_id |-> session_id,
     result |-> res]

NoReply == Reply("", 0, NoSid, NoResult)

\* coroutine r returns (or raises) res
Return(r, res) ==
    Reply(reqs[r].op, reqs[r].device_code, reqs[r].session_id, res)

(* ------------------------- the remote services ------------------------ *)
ClientIdOf(d) == "client" \o ToString(d)
ClientSecretOf(d) == "secret" \o ToString(d)

ErrorBody(msg, code) == [error |-> msg, error_code |-> code]

\* the answers of GET /device/credentials for device code d: the client
\* credentials once the user has approved; before that an error, and
\* another one for a code whose time has run out
CredentialsResponses(d) ==
    IF devices[d] \in {"approved", "exchanged"}
    THEN {[status |-> 200,
           body |-> [client_id |-> ClientIdOf(d),
                     client_secret |-> ClientSecretOf(d)]]}
    ELSE IF devices[d] = "expired"
    THEN {[status |-> 410, body |-> ErrorBody("expired_token", 8)]}
    ELSE {[status |-> 403, body |-> ErrorBody("action_pending", 0)]}

\* a token answer of POST /token: the provider mints token response nextTok
TokenBody(e) == [access_token |-> nextTok, refresh_token |-> nextTok,
                 expires_in |-> e]

TokenRejected == [status |-> 403, body |-> ErrorBody("invalid_grant", 9)]

TokenResponses ==
    {[status |-> 200, body |-> TokenBody(e)] : e \in
        IF nextTok <= MaxTokens THEN ExpiresInVals ELSE {}}
    \cup {TokenRejected}

\* the answers to the exchange of device code d: a device code buys one
\* token response, and the provider may not have it ready yet
ExchangeResponses(d) ==
    IF devices[d] = "approved" THEN TokenResponses ELSE {TokenRejected}

\* a body that is not JSON, such as the error page of a gateway
NotJson == [text |-> "<html>Bad Gateway</html>"]

\* the answers of the REST API
ApiResponses ==
    {[status |-> 200, body |-> [payload |-> "data"]],
     [status |-> 204, body |-> NoBody],
     [status |-> 403, body |-> ErrorBody("password_protected", 19)],
     [status |-> 503, body |-> [payload |-> "unavailable"]],
     [status |-> 502, body |-> NotJson]}

(* ----------------------------- the clock ------------------------------ *)
Init ==
    /\ now = 0
    /\ user_tokens = [s \in {} |-> NoSession]
    /\ reqs = [r \in Reqs |-> Idle]
    /\ devices = [d \in Devices |-> "unissued"]
    /\ nextTok = 1
    /\ reply = NoReply
    /\ authorized = 0
    /\ checkLog = <<>>

Tick ==
    /\ now < MaxTime
    /\ now' = now + 1
    /\ reply' = NoReply
    /\ UNCHANGED <<user_tokens, reqs, devices, nextTok, authorized, checkLog>>

\* the user approves an issued device code in the browser
Approve(d) ==
    /\ devices[d] = "issued"
    /\ devices' = [devices EXCEPT ![d] = "approved"]
    /\ reply' = NoReply
    /\ UNCHANGED <<now, user_tokens, reqs, nextTok, authorized, checkLog>>

\* the time the provider gives the user to approve a device code runs out
Expire(d) ==
    /\ devices[d] = "issued"
    /\ devices' = [devices EXCEPT ![d] = "expired"]
    /\ reply' = NoReply
    /\ UNCHANGED <<now, user_tokens, reqs, nextTok, authorized, checkLog>>

(* --------------------------- OAuth client ----------------------------- *)
\* get_device_credentials: None (NoCreds) on any status but 200
get_device_credentials(response) ==
    IF response.status # 200
    THEN NoCreds
    ELSE [clientId |-> response.body.client_id,
          clientSecret |-> response.body.client_secret]

\* mutant: the lifetime is hard-coded instead of read from the answer
get_access_token_hardcoded(response) ==
    IF response.status # 200
    THEN NoTokens
    ELSE [accessToken |-> response.body.access_token,
          refreshToken |-> response.body.refresh_token,
          expiresIn |-> 3600]

\* mutant: the status of the answer is not looked at
get_access_token_unchecked(response) ==
    [accessToken |-> IF "access_token" \in DOMAIN response.body
                     THEN response.body.access_token ELSE -1,
     refreshToken |-> IF "refresh_token" \in DOMAIN response.body
                      THEN response.body.refresh_token ELSE -1,
     expiresIn |-> IF "expires_in" \in DOMAIN response.body
                   THEN response.body.expires_in ELSE -1]

\* get_access_token: None (NoTokens) on any status but 200
get_access_token(response) ==
    IF response.status # 200
    THEN NoTokens
    ELSE [accessToken |-> response.body.access_token,
          refreshToken |-> response.body.refresh_token,
          expiresIn |-> response.body.expires_in]

\* data.get(key, default)
BodyGet(body, key, default) ==
    IF key \in DOMAIN body THEN body[key] ELSE default

\* mutant: the check of the credentials is lost
no_credentials_never(credentials) == FALSE

\* if not credentials / if not tokens
no_credentials(credentials) == credentials = NoCreds

\* mutant: the check of the token answer is lost
no_tokens_never(tokens) == FALSE

no_tokens(tokens) == tokens = NoTokens

\* refresh_access_token never looks at the status: data["access_token"]
\* raises KeyError when the answer carries no token
KeyError == [raised |-> "KeyError", message |-> "access_token"]

\* mutant: data.get("access_token") instead of data["access_token"]
refresh_access_token_get(response) ==
    [accessToken |-> BodyGet(response.body, "access_token", 0),
     refreshToken |-> BodyGet(response.body, "refresh_token", 0),
     expiresIn |-> BodyGet(response.body, "expires_in", 0)]

refresh_access_token(response) ==
    IF "access_token" \notin DOMAIN response.body
    THEN KeyError
    ELSE [accessToken |-> response.body.access_token,
          refreshToken |-> response.body.refresh_token,
          expiresIn |-> response.body.expires_in]

Raised(value) == "raised" \in DOMAIN value

\* the form both token calls post to /token
\* mutant: the token endpoint is called with the default client id
TokenRequest_default_client(client_id, client_secret, code) ==
    [NoRequest EXCEPT !.url = RD_OAUTH_BASE \o "/token", !.method = "POST",
                      !.client_id = DEFAULT_CLIENT_ID,
                      !.client_secret = client_secret,
                      !.code = code]

TokenRequest(client_id, client_secret, code) ==
    [NoRequest EXCEPT !.url = RD_OAUTH_BASE \o "/token", !.method = "POST",
                      !.client_id = client_id, !.client_secret = client_secret,
                      !.code = code]

JSONDecodeError == [raised |-> "JSONDecodeError", message |-> "Expecting value"]

\* response.json(): the parsed body, or JSONDecodeError for a body that is
\* not JSON
response_json(response) ==
    IF response.body = NotJson THEN JSONDecodeError ELSE response.body

\* rd_api_request: what the adapter makes of the REST API's answer
rd_api_request(response) ==
    IF response.status = 204
    THEN [success |-> TRUE]
    ELSE LET data == response_json(response)
         IN  IF Raised(data)
             THEN data
             ELSE IF response.status >= 400
                  THEN [raised |-> "Exception",
                        error_msg |-> BodyGet(data, "error", "Unknown error"),
                        error_code |-> IF "error_code" \in DOMAIN data
                                       THEN ToString(data.error_code)
                                       ELSE "N/A"]
                  ELSE [data |-> data]

ApiRequest(endpoint, access_token, method) ==
    [NoRequest EXCEPT !.url = RD_API_BASE \o endpoint, !.method = method,
                      !.bearer = access_token]

(* ----------------------------- oauth_start ---------------------------- *)
\* device codes the provider can still hand out to a waiting oauth_start
Unissued == {d \in Devices : devices[d] = "unissued"}

Starting == {r \in Reqs : reqs[r].pc = "initiate_device_auth"}

\* oauth_start up to its await of initiate_device_auth()
oauth_start(r) ==
    /\ Free(r)
    /\ Cardinality(Unissued) > Cardinality(Starting)
    /\ reqs' = [reqs EXCEPT ![r] =
            [Idle EXCEPT !.pc = "initiate_device_auth", !.op = "oauth_start",
                         !.request = [NoRequest EXCEPT
                              !.url = RD_OAUTH_BASE \o "/device/code",
                              !.method = "GET",
                              !.client_id = DEFAULT_CLIENT_ID]]]
    /\ reply' = NoReply
    /\ UNCHANGED <<now, user_tokens, devices, nextTok, authorized, checkLog>>

\* the provider answers with a new device code; oauth_start returns it
oauth_start_resume(r) ==
    /\ reqs[r].pc = "initiate_device_auth"
    /\ \E d \in Unissued :
        /\ \A e \in Unissued : d <= e
        /\ devices' = [devices EXCEPT ![d] = "issued"]
        /\ reply' = Reply("oauth_start", 0, NoSid,
                          [device_code |-> d,
                           instructions |-> "Then use oauth_check"])
    /\ reqs' = [reqs EXCEPT ![r] = Idle]
    /\ UNCHANGED <<now, user_tokens, nextTok, authorized, checkLog>>

(* ----------------------------- oauth_check ---------------------------- *)
PendingNotAuthorized ==
    [status |-> "pending", message |-> "User has not authorized yet."]

PendingInProgress ==
    [status |-> "pending", message |-> "Authorization in progress."]

\* the keys of the Token Store a step writes
Written == {s \in DOMAIN user_tokens' :
                s \notin DOMAIN user_tokens \/ user_tokens'[s] # user_tokens[s]}

\* one completed oauth_check invocation: what the provider answered to
\* get_device_credentials and to get_access_token, what oauth_check
\* returned, and the keys of the Token Store it wrote
LogEntry(d, poll, exchange, res) ==
    [device_code |-> d, poll |-> poll, exchange |-> exchange, result |-> res,
     written |-> Written]

Checking == {r \in Reqs : reqs[r].op = "oauth_check"}

\* oauth_check up to its await of get_device_credentials(device_code)
oauth_check(r, d) ==
    /\ Free(r)
    /\ Len(checkLog) + Cardinality(Checking) < MaxChecks
    /\ reqs' = [reqs EXCEPT ![r] =
            [Idle EXCEPT !.pc = "get_device_credentials", !.op = "oauth_check",
                         !.device_code = d,
                         !.request = [NoRequest EXCEPT
                              !.url = RD_OAUTH_BASE \o "/device/credentials",
                              !.method = "GET",
                              !.client_id = DEFAULT_CLIENT_ID,
                              !.code = d]]]
    /\ reply' = NoReply
    /\ UNCHANGED <<now, user_tokens, devices, nextTok, authorized, checkLog>>

\* oauth_check from the answer of /device/credentials to its next await
oauth_check_credentials(r) ==
    /\ reqs[r].pc = "get_device_credentials"
    /\ \E response \in CredentialsResponses(reqs[r].device_code) :
        LET credentials == get_device_credentials(response)
            d == reqs[r].device_code
        IN  IF no_credentials(credentials)
            THEN /\ reqs' = [reqs EXCEPT ![r] = Idle]
                 /\ reply' = Return(r, PendingNotAuthorized)
                 /\ user_tokens' = user_tokens
                 /\ checkLog' = Append(checkLog,
                        LogEntry(d, response, NoResponse, PendingNotAuthorized))
            ELSE /\ reqs' = [reqs EXCEPT ![r] =
                        [@ EXCEPT !.pc = "get_access_token",
                                  !.credentials = credentials,
                                  !.response = response,
                                  !.request = TokenRequest(credentials.clientId,
                                        credentials.clientSecret, d)]]
                 /\ reply' = NoReply
                 /\ UNCHANGED <<user_tokens, checkLog>>
    /\ UNCHANGED <<now, devices, nextTok, authorized>>

\* session_id = f"session_{int(time.time())}_{os.urandom(4).hex()}"
SessionId(t, rnd) == <<IntTime(t), rnd>>

\* user_tokens[session_id] = record
Store(session_id, record) ==
    [s \in DOMAIN user_tokens \cup {session_id} |->
        IF s = session_id THEN record ELSE user_tokens[s]]

\* oauth_check from the answer of /token to its return
oauth_check_tokens(r) ==
    /\ reqs[r].pc = "get_access_token"
    /\ \E response \in ExchangeResponses(reqs[r].device_code) :
        LET tokens == get_access_token(response)
            credentials == reqs[r].credentials
            d == reqs[r].device_code
        IN  IF no_tokens(tokens)
            THEN /\ reply' = Return(r, PendingInProgress)
                 /\ user_tokens' = user_tokens
                 /\ checkLog' = Append(checkLog,
                        LogEntry(d, reqs[r].response, response, PendingInProgress))
                 /\ UNCHANGED <<nextTok, authorized, devices>>
            ELSE \E rnd \in Rand :
                 LET session_id == SessionId(now, rnd)
                     res == [status |-> "authorized",
                             session_id |-> session_id,
                             expires_in |-> tokens.expiresIn]
                 IN  /\ user_tokens' = Store(session_id,
                            [accessToken |-> tokens.accessToken,
                             refreshToken |-> tokens.refreshToken,
                             expiresAt |-> now + tokens.expiresIn * TicksPerSec,
                             clientId |-> credentials.clientId,
                             clientSecret |-> credentials.clientSecret])
                     /\ reply' = Return(r, res)
                     /\ checkLog' = Append(checkLog,
                            LogEntry(d, reqs[r].response, response, res))
                     /\ nextTok' = nextTok + 1
                     /\ devices' = [devices EXCEPT ![d] = "exchanged"]
                     /\ authorized' = authorized + 1
    /\ reqs' = [reqs EXCEPT ![r] = Idle]
    /\ now' = now

(* ---------------------------- get_user_info --------------------------- *)
InvalidSession ==
    [raised |-> "ToolError", message |-> "Invalid session_id. Please authenticate first."]

\* user_tokens.get(session_id): None (NoSession) for an unknown id
user_tokens_get(session_id) ==
    IF session_id \in DOMAIN user_tokens
    THEN user_tokens[session_id]
    ELSE NoSession

\* mutant: the test of the lookup is inverted
not_session_inverted(session) == session # NoSession

\* if not session
not_session(session) == session = NoSession

\* mutant: the comparison is turned around
IsExpired_inverted(session) == now <= session.expiresAt

\* time.time() >= session["expiresAt"]
IsExpired(session) == now >= session.expiresAt

\* get_user_info up to its first await: the lookup, the expiry check and
\* either the refresh call or the API request
get_user_info(r, session_id) ==
    /\ Free(r)
    /\ LET call == [Idle EXCEPT !.op = "get_user_info",
                                !.session_id = session_id]
           session == user_tokens_get(session_id)
       IN  IF not_session(session)
           THEN /\ reqs' = reqs
                /\ reply' = Reply("get_user_info", 0, session_id, InvalidSession)
           ELSE     /\ reply' = NoReply
                    /\ IF IsExpired(session)
                       THEN reqs' = [reqs EXCEPT ![r] =
                               [call EXCEPT !.pc = "refresh_access_token",
                                            !.session = session,
                                            !.request = TokenRequest(
                                                session.clientId,
                                                session.clientSecret,
                                                session.refreshToken)]]
                       ELSE reqs' = [reqs EXCEPT ![r] =
                               [call EXCEPT !.pc = "rd_api_request",
                                            !.request = ApiRequest("/user",
                                                session.accessToken, "GET")]]
    /\ UNCHANGED <<now, user_tokens, devices, nextTok, authorized, checkLog>>

\* the provider handles a refresh call: it mints a new token response or
\* rejects the refresh token; the answer travels back to the coroutine
provider_refresh(r) ==
    /\ reqs[r].pc = "refresh_access_token"
    /\ \E response \in TokenResponses :
        /\ reqs' = [reqs EXCEPT ![r] =
                [@ EXCEPT !.pc = "refresh_answered", !.response = response]]
        /\ nextTok' = IF response.status = 200 THEN nextTok + 1 ELSE nextTok
    /\ reply' = NoReply
    /\ UNCHANGED <<now, user_tokens, devices, authorized, checkLog>>

\* mutant: the new lifetime is not written to the session
session_refreshed_stale_expiry(session, new_tokens) ==
    [session EXCEPT !.accessToken = new_tokens.accessToken,
                    !.refreshToken = new_tokens.refreshToken]

\* mutant: the new refresh token is not written to the session
session_refreshed_partial(session, new_tokens) ==
    [session EXCEPT !.accessToken = new_tokens.accessToken,
                    !.expiresAt = now + new_tokens.expiresIn * TicksPerSec]

\* session["accessToken"] = ..., session["refreshToken"] = ...,
\* session["expiresAt"] = time.time() + new_tokens["expiresIn"]
session_refreshed(session, new_tokens) ==
    [session EXCEPT !.accessToken = new_tokens.accessToken,
                    !.refreshToken = new_tokens.refreshToken,
                    !.expiresAt = now + new_tokens.expiresIn * TicksPerSec]

\* get_user_info from the answer of the refresh call to its next await:
\* the three assignments to the session dict, user_tokens[session_id] =
\* session, and the API request with session["accessToken"]
get_user_info_refreshed(r) ==
    /\ reqs[r].pc = "refresh_answered"
    /\ LET new_tokens == refresh_access_token(reqs[r].response)
       IN
       IF Raised(new_tokens)
       THEN /\ reqs' = [reqs EXCEPT ![r] = Idle]
            /\ reply' = Return(r, new_tokens)
            /\ user_tokens' = user_tokens
       ELSE LET session == session_refreshed(reqs[r].session, new_tokens)
            IN  /\ user_tokens' = Store(reqs[r].session_id, session)
                /\ reqs' = [reqs EXCEPT ![r] =
                        [@ EXCEPT !.pc = "rd_api_request",
                                  !.session = NoSession,
                                  !.response = NoResponse,
                                  !.request = ApiRequest("/user",
                                        session.accessToken, "GET")]]
                /\ reply' = NoReply
    /\ UNCHANGED <<now, devices, nextTok, authorized, checkLog>>

(* ------------- unrestrict_link, list_torrents, add_magnet ------------- *)
\* the three tools share one shape: the lookup, then the API request with
\* session["accessToken"]; none of them looks at expiresAt
ProxiedCall(r, session_id, op, endpoint, method) ==
    /\ Free(r)
    /\ LET call == [Idle EXCEPT !.op = op, !.session_id = session_id]
           session == user_tokens_get(session_id)
       IN  IF not_session(session)
           THEN /\ reqs' = reqs
                /\ reply' = Reply(op, 0, session_id, InvalidSession)
           ELSE     /\ reqs' = [reqs EXCEPT ![r] =
                            [call EXCEPT !.pc = "rd_api_request",
                                         !.request = ApiRequest(endpoint,
                                             session.accessToken, method)]]
                    /\ reply' = NoReply
    /\ UNCHANGED <<now, user_tokens, devices, nextTok, authorized, checkLog>>

unrestrict_link(r, session_id) ==
    ProxiedCall(r, session_id, "unrestrict_link", "/unrestrict/link", "POST")

list_torrents(r, session_id) ==
    ProxiedCall(r, session_id, "list_torrents", "/torrents", "GET")

add_magnet(r, session_id) ==
    ProxiedCall(r, session_id, "add_magnet", "/torrents/addMagnet", "POST")

\* the REST API answers; the tool returns the payload or raises.  The
\* reply is shown with the answer it was made from.
rd_api_response(r) ==
    /\ reqs[r].pc = "rd_api_request"
    /\ \E response \in ApiResponses :
        reply' = [op |-> reqs[r].op, device_code |-> reqs[r].device_code,
                  session_id |-> reqs[r].session_id,
                  result |-> rd_api_request(response),
                  response |-> response]
    /\ reqs' = [reqs EXCEPT ![r] = Idle]
    /\ UNCHANGED <<now, user_tokens, devices, nextTok, authorized, checkLog>>

(* ---------------------------- custom routes --------------------------- *)
root ==
    /\ reply' = Reply("root", 0, NoSid,
                      [name |-> "Real-Debrid MCP Server (OAuth)", tools |-> 6])
    /\ UNCHANGED <<now, user_tokens, reqs, devices, nextTok, authorized,
                   checkLog>>

health ==
    /\ reply' = Reply("health", 0, NoSid,
                      [status |-> "healthy",
                       activeSessions |-> Cardinality(DOMAIN user_tokens)])
    /\ UNCHANGED <<now, user_tokens, reqs, devices, nextTok, authorized,
                   checkLog>>

(* --------------------------- specification ---------------------------- *)
Next ==
    \/ Tick
    \/ \E d \in Devices : Approve(d)
    \/ \E d \in Devices : Expire(d)
    \/ \E r \in Reqs : oauth_start(r)
    \/ \E r \in Reqs : oauth_start_resume(r)
    \/ \E r \in Reqs, d \in Devices : oauth_check(r, d)
    \/ \E r \in Reqs : oauth_check_credentials(r)
    \/ \E r \in Reqs : oauth_check_tokens(r)
    \/ \E r \in Reqs, s \in SessionIds : get_user_info(r, s)
    \/ \E r \in Reqs : provider_refresh(r)
    \/ \E r \in Reqs : get_user_info_refreshed(r)
    \/ \E r \in Reqs, s \in SessionIds : unrestrict_link(r, s)
    \/ \E r \in Reqs, s \in SessionIds : list_torrents(r, s)
    \/ \E r \in Reqs, s \in SessionIds : add_magnet(r, s)
    \/ \E r \in Reqs : rd_api_response(r)
    \/ root
    \/ health

Spec == Init /\ [][Next]_vars

(* ------------------------------- claims ------------------------------- *)
\* coroutine r is suspended at the refresh call of its session
Refreshing(r) == reqs[r].pc \in {"refresh_access_token", "refresh_answered"}

\* in this step coroutine r issues its request to the REST API
IssuesApiRequest(r) ==
    reqs[r].pc # "rd_api_request" /\ reqs'[r].pc = "rd_api_request"

\* in this step a tool invocation starts on slot r and suspends
Starts(r) == reqs[r].pc = "idle" /\ reqs'[r].pc # "idle"

\* C1: single flight.  Two requesters of one session are never suspended
\* at the refresh call with the same refresh token: for one expiry of a
\* session at most one RefreshToken call is outstanding, whatever the
\* interleaving.
C1_SingleFlight ==
    \A r1, r2 \in Reqs :
        (/\ Refreshing(r1) /\ Refreshing(r2)
         /\ reqs[r1].session_id = reqs[r2].session_id
         /\ reqs[r1].request.code = reqs[r2].request.code) => r1 = r2

\* C2: whenever a proxied operation issues its request to the REST API,
\* the record of its session, as it is when the token is read, is not
\* expired (now < expiresAt).
C2_NoExpiredBearer ==
    [][\A r \in Reqs :
        IssuesApiRequest(r) =>
            now' < user_tokens'[reqs'[r].session_id].expiresAt]_vars

\* C3: when a requester that found its session expired issues its request
\* to the REST API, the token it sends is the one the Token Store holds, is
\* not the expired token, and no later refresh of the same session has
\* been answered by the provider with a newer token.
C3_TokenValidAfterRefresh ==
    [][\A r \in Reqs :
        (reqs[r].pc = "refresh_answered" /\ IssuesApiRequest(r)) =>
            LET t == reqs'[r].request.bearer
                s == reqs[r].session_id
            IN  /\ t = user_tokens'[s].accessToken
                /\ t # reqs[r].session.accessToken
                /\ \A q \in Reqs \ {r} :
                    (/\ reqs[q].pc = "refresh_answered"
                     /\ reqs[q].session_id = s
                     /\ ~Raised(refresh_access_token(reqs[q].response)))
                    => refresh_access_token(reqs[q].response).accessToken < t
      ]_vars

\* an oauth_check answers "authorized" in this reply
Authorized(rep) ==
    /\ rep.op = "oauth_check"
    /\ "status" \in DOMAIN rep.result
    /\ rep.result.status = "authorized"

\* an oauth_check answers "pending" in this reply
Pending(rep) ==
    /\ rep.op = "oauth_check"
    /\ "status" \in DOMAIN rep.result
    /\ rep.result.status = "pending"

\* C4: the session_id a successful oauth_check mints is no key of the
\* Token Store before the record is stored.
C4_FreshSessionId ==
    [][Authorized(reply') =>
            reply'.result.session_id \notin DOMAIN user_tokens]_vars

\* C5: a session operation that starts on a session whose record is not
\* expired goes straight to the REST API with the stored accessToken: it
\* issues no refresh call and leaves the Token Store as it is.
C5_UnexpiredNoRefresh ==
    [][\A r \in Reqs :
        (/\ Starts(r)
         /\ reqs'[r].op \in SessionOps
         /\ reqs'[r].session_id \in DOMAIN user_tokens
         /\ now < user_tokens[reqs'[r].session_id].expiresAt) =>
            /\ reqs'[r].pc = "rd_api_request"
            /\ reqs'[r].request.bearer =
                    user_tokens[reqs'[r].session_id].accessToken
            /\ user_tokens' = user_tokens]_vars

\* get_user_info went to the REST API on a live record that was never
\* refreshed: only the token of the exchange has been minted
C5_Witness ==
    \E r \in Reqs :
        /\ reqs[r].op = "get_user_info"
        /\ reqs[r].pc = "rd_api_request"
        /\ nextTok = 2
        /\ now < user_tokens[reqs[r].session_id].expiresAt
        /\ reqs[r].request.bearer = user_tokens[reqs[r].session_id].accessToken

\* an oauth_check invocation completes in this step; its log entry
Completes == Len(checkLog') = Len(checkLog) + 1

Last == checkLog'[Len(checkLog')]

\* the completed oauth_check invocations for device code d
LogOf(d) == SelectSeq(checkLog, LAMBDA e : e.device_code = d)

\* C6: an oauth_check invocation whose get_device_credentials or
\* get_access_token was answered with None answers "pending", and every
\* "pending" answer carries no session_id and leaves the Token Store
\* exactly as it was.
C6_PendingNoEffect ==
    [][/\ (Completes /\ (Last.poll.status # 200 \/ Last.exchange.status # 200))
                => Pending(reply')
       /\ Pending(reply') =>
            /\ "session_id" \notin DOMAIN reply'.result
            /\ user_tokens' = user_tokens]_vars

\* both kinds of pending were answered for one device code, one after the
\* other, and the Token Store is still empty
C6_Witness ==
    \E d \in Devices :
        /\ Len(LogOf(d)) = 2
        /\ LogOf(d)[1].poll.status # 200
        /\ LogOf(d)[2].poll.status = 200
        /\ LogOf(d)[2].exchange.status # 200
        /\ reply.result = PendingInProgress
        /\ DOMAIN user_tokens = {}

\* C7: no session operation is suspended on (has a remote call in flight
\* for) a session_id that is no key of the Token Store, and a session
\* operation called with such an id answers InvalidSession in the same
\* step, with no coroutine and no record changed.
C7_InvalidSession ==
    [][/\ \A r \in Reqs :
            (Starts(r) /\ reqs'[r].op \in SessionOps)
                => reqs'[r].session_id \in DOMAIN user_tokens
       /\ (reply'.op \in SessionOps
           /\ reply'.session_id \notin DOMAIN user_tokens) =>
            /\ reply'.result = InvalidSession
            /\ reqs' = reqs
            /\ user_tokens' = user_tokens]_vars

\* get_user_info answered InvalidSession for an unknown id while the
\* Token Store holds another session
C7_Witness ==
    /\ reply.op = "get_user_info"
    /\ reply.result = InvalidSession
    /\ reply.session_id \notin DOMAIN user_tokens
    /\ DOMAIN user_tokens # {}

\* C8: when the provider's answer to a refresh call is not a success, the
\* operation raises, it issues no request to the REST API, and the Token
\* Store is unchanged.
C8_RefreshRejected ==
    [][\A r \in Reqs :
        (/\ reqs[r].pc = "refresh_answered"
         /\ reqs[r].response.status # 200
         /\ reqs'[r] # reqs[r]) =>
            /\ Raised(reply'.result)
            /\ reply'.op = "get_user_info"
            /\ reqs'[r].pc = "idle"
            /\ user_tokens' = user_tokens]_vars

\* get_user_info raised on a rejected refresh and the record still holds
\* the expired token of the exchange
C8_Witness ==
    /\ reply.op = "get_user_info"
    /\ reply.result = KeyError
    /\ reply.session_id \in DOMAIN user_tokens
    /\ now >= user_tokens[reply.session_id].expiresAt
    /\ user_tokens[reply.session_id].accessToken = 1

\* C9: the Token Store holds as many records as oauth_check invocations
\* have answered "authorized", and the health check reports that number.
C9_HealthCount ==
    /\ Cardinality(DOMAIN user_tokens) = authorized
    /\ reply.op = "health" =>
            reply.result.activeSessions = Cardinality(DOMAIN user_tokens)

\* C10: if for a device code the first k completed oauth_check
\* invocations had get_device_credentials answer None and the next one
\* obtained credentials and tokens, then the first k answered "pending"
\* and wrote nothing, and the next one answered "authorized" with the
\* expires_in of the token answer and wrote exactly the record of the
\* session_id it returned.
C10_PendingThenAuthorized ==
    \A d \in Devices : \A n \in 1..Len(LogOf(d)) :
        LET log == LogOf(d)
        IN  (/\ \A i \in 1..(n - 1) : log[i].poll.status # 200
             /\ log[n].poll.status = 200
             /\ log[n].exchange.status = 200) =>
                /\ \A i \in 1..(n - 1) :
                    /\ log[i].result.status = "pending"
                    /\ "session_id" \notin DOMAIN log[i].result
                    /\ log[i].written = {}
                /\ log[n].result.status = "authorized"
                /\ log[n].result.expires_in = log[n].exchange.body.expires_in
                /\ log[n].written = {log[n].result.session_id}

\* one pending answer, then the authorization
C10_Witness ==
    \E d \in Devices :
        /\ Len(LogOf(d)) = 2
        /\ LogOf(d)[1].poll.status # 200
        /\ LogOf(d)[2].result.status = "authorized"
        /\ DOMAIN user_tokens = {LogOf(d)[2].result.session_id}

\* C11: when the provider answers the refresh call of an expired session
\* with a new access token T2, a new refresh token and expires_in, the
\* request get_user_info then sends to the REST API carries T2, and the
\* stored record of the session holds T2, the new refresh token and
\* expiresAt = now + expires_in.
C11_RefreshStoresNewTokens ==
    [][\A r \in Reqs :
        (/\ reqs[r].pc = "refresh_answered"
         /\ reqs[r].response.status = 200
         /\ reqs'[r] # reqs[r]) =>
            LET body == reqs[r].response.body
                record == user_tokens'[reqs[r].session_id]
            IN  /\ IssuesApiRequest(r)
                /\ reqs'[r].request.bearer = body.access_token
                /\ record.accessToken = body.access_token
                /\ record.refreshToken = body.refresh_token
                /\ record.expiresAt = now + body.expires_in * TicksPerSec]_vars

\* after one exchange and one refresh, get_user_info is suspended at the
\* REST API with the second token, which the record holds with a lifetime
\* that starts now
C11_Witness ==
    \E r \in Reqs :
        /\ reqs[r].op = "get_user_info"
        /\ reqs[r].pc = "rd_api_request"
        /\ reqs[r].request.bearer = 2
        /\ authorized = 1
        /\ reqs[r].session_id \in DOMAIN user_tokens
        /\ user_tokens[reqs[r].session_id].accessToken = 2
        /\ user_tokens[reqs[r].session_id].refreshToken = 2
        /\ user_tokens[reqs[r].session_id].expiresAt = now + MaxExpiresIn * TicksPerSec

\* C12: the outcome of rd_api_request is determined by the status of the
\* REST API's answer: 204 gives {"success": True}, any other status below
\* 400 gives the parsed body unchanged, and any status of 400 or more
\* raises the API error that carries the error and error_code of the body
\* (the defaults where the body has none); no answer with a status of 400
\* or more gives a result that is not raised.
C12_OutcomeByStatus ==
    "response" \in DOMAIN reply =>
        LET status == reply.response.status
            body == reply.response.body
            result == reply.result
        IN  /\ status = 204 => result = [success |-> TRUE]
            /\ (status < 400 /\ status # 204) => result = [data |-> body]
            /\ status >= 400 =>
                    /\ Raised(result)
                    /\ result.raised = "Exception"
                    /\ "error" \in DOMAIN body => result.error_msg = body.error
                    /\ "error_code" \in DOMAIN body =>
                            result.error_code = ToString(body.error_code)

\* C13: "authorized" is terminal for a device code.  Once an oauth_check
\* for a device code has answered "authorized", no oauth_check for the
\* same device code that answers after it answers "pending" or writes a
\* record to the Token Store.
C13_AuthorizedTerminal ==
    \A i \in 1..Len(checkLog) : \A j \in (i + 1)..Len(checkLog) :
        (/\ checkLog[i].result.status = "authorized"
         /\ checkLog[j].device_code = checkLog[i].device_code) =>
            /\ checkLog[j].result.status # "pending"
            /\ checkLog[j].written = {}

\* C14: no oauth_check invocation ends in an error because the provider
\* answered /device/credentials or /token with a status other than 200:
\* every invocation that got such an answer, whether the device code is
\* unknown to the provider, has run out of time or waits for the user,
\* has answered "pending" and nothing raised.
C14_Non200IsPending ==
    \A i \in 1..Len(checkLog) :
        LET e == checkLog[i]
        IN  (\/ e.poll.status # 200
             \/ (e.exchange # NoResponse /\ e.exchange.status # 200)) =>
                /\ ~Raised(e.result)
                /\ e.result.status = "pending"

\* one device code the provider never issued and one whose time ran out
\* were checked, and a token exchange was rejected
C14_Witness ==
    /\ Len(checkLog) = 2
    /\ checkLog[1].poll.status = 403
    /\ devices[checkLog[1].device_code] = "unissued"
    /\ checkLog[2].poll.status = 410
    /\ reply.op = "oauth_check"
    /\ reply.result.status = "pending"

\* the token answers a step handles: the answer of the exchange an
\* oauth_check completes with, and the answers the refresh calls wait with
HandledTokenBodies(s) ==
    {reqs[r].response.body : r \in {q \in Reqs :
        /\ reqs[q].pc = "refresh_answered"
        /\ reqs[q].session_id = s
        /\ reqs'[q] # reqs[q]}}
    \cup (IF Completes THEN {Last.exchange.body} ELSE {})

\* C15: the accessToken, refreshToken and expiresAt of every stored record
\* come from one and the same token answer.  Every step that writes a
\* record takes all three from one answer it handles (the exchange or one
\* refresh answer), so that after every step, whatever the interleaving,
\* no record holds the access token of one answer and the refresh token
\* of another.
C15_OneTokenResponse ==
    [][/\ \A s \in Written :
            \E body \in HandledTokenBodies(s) :
                /\ "access_token" \in DOMAIN body
                /\ user_tokens'[s].accessToken = body.access_token
                /\ user_tokens'[s].refreshToken = body.refresh_token
                /\ user_tokens'[s].expiresAt = now + body.expires_in * TicksPerSec
       /\ \A s \in DOMAIN user_tokens' :
            user_tokens'[s].accessToken = user_tokens'[s].refreshToken]_vars

\* two refresh calls of one session were answered and handled: the record
\* holds the tokens of the third token answer
C15_Witness ==
    \E s \in DOMAIN user_tokens :
        /\ authorized = 1
        /\ user_tokens[s].accessToken = 3
        /\ user_tokens[s].refreshToken = 3

\* in this step coroutine r handles an accepted refresh answer
RefreshSucceeds(r) ==
    /\ reqs[r].pc = "refresh_answered"
    /\ reqs[r].response.status = 200
    /\ reqs'[r] # reqs[r]

\* C16: no record is ever removed from the Token Store, the clientId and
\* clientSecret of a record never change after its creation, and an
\* existing record is changed only by the step that handles an accepted
\* refresh answer for its session: oauth_start, oauth_check, the root and
\* health routes and calls on unexpired records leave every existing
\* record as it was.
C16_RecordsOnlyRefreshed ==
    [][\A s \in DOMAIN user_tokens :
        /\ s \in DOMAIN user_tokens'
        /\ user_tokens'[s].clientId = user_tokens[s].clientId
        /\ user_tokens'[s].clientSecret = user_tokens[s].clientSecret
        /\ user_tokens'[s] # user_tokens[s] =>
                \E r \in Reqs : RefreshSucceeds(r) /\ reqs[r].session_id = s]_vars

\* an operation on session s can start on slot q, and the operation
\* suspended on slot q can take its next step
CanProceed(q, s) ==
    /\ reqs[q].pc = "idle" =>
            /\ ENABLED (get_user_info(q, s) /\ Starts(q))
            /\ ENABLED (unrestrict_link(q, s) /\ Starts(q))
            /\ ENABLED (list_torrents(q, s) /\ Starts(q))
            /\ ENABLED (add_magnet(q, s) /\ Starts(q))
    /\ reqs[q].pc = "refresh_access_token" => ENABLED provider_refresh(q)
    /\ reqs[q].pc = "refresh_answered" => ENABLED get_user_info_refreshed(q)
    /\ reqs[q].pc = "rd_api_request" => ENABLED rd_api_response(q)

\* C17: while a refresh of session S is in flight, an operation on any
\* other session of the Token Store can start on a free slot, every
\* operation already started on another session can take its next step up
\* to its return, and no step of the refresh of S, its completion
\* included, changes the record of another session.
C17_OtherSessionsProceed ==
    [][\A r \in Reqs : Refreshing(r) =>
        /\ \A q \in Reqs \ {r} :
            \A s \in DOMAIN user_tokens \ {reqs[r].session_id} :
                (reqs[q].pc = "idle" \/ reqs[q].session_id = s) =>
                    CanProceed(q, s)
        /\ reqs'[r] # reqs[r] =>
            \A s \in DOMAIN user_tokens \ {reqs[r].session_id} :
                user_tokens'[s] = user_tokens[s]]_vars

\* an operation on another session returns the answer of the REST API
\* while a refresh call is in flight
C17_Witness ==
    \E r \in Reqs :
        /\ reqs[r].pc = "refresh_access_token"
        /\ reply.op \in SessionOps
        /\ "response" \in DOMAIN reply
        /\ reply.session_id # reqs[r].session_id
        /\ {reply.session_id, reqs[r].session_id} \subseteq DOMAIN user_tokens

\* C18: an oauth_check invocation makes one call of /device/credentials
\* and at most one call of /token and then returns, whatever the provider
\* answers.  Its steps are the call, which sends the request to
\* /device/credentials; the handling of that answer, which returns or, only
\* when the answer carried credentials, sends the one request to /token;
\* and the handling of the /token answer, which returns.  No step leads
\* back to an earlier one, and every answer lets the invocation go on.
C18_OnePollOneExchange ==
    [][\A r \in Reqs :
        /\ reqs[r].pc = "get_device_credentials" =>
                ENABLED oauth_check_credentials(r)
        /\ reqs[r].pc = "get_access_token" => ENABLED oauth_check_tokens(r)
        /\ (reqs'[r] # reqs[r] /\ "oauth_check" \in {reqs[r].op, reqs'[r].op}) =>
            \/ /\ reqs[r].pc = "idle"
               /\ reqs'[r].pc = "get_device_credentials"
               /\ reqs'[r].request.url = RD_OAUTH_BASE \o "/device/credentials"
               /\ ~Completes
            \/ /\ reqs[r].pc = "get_device_credentials"
               /\ reqs'[r].pc = "idle"
               /\ Completes
               /\ Last.poll.status # 200
               /\ Last.exchange = NoResponse
            \/ /\ reqs[r].pc = "get_device_credentials"
               /\ reqs'[r].pc = "get_access_token"
               /\ reqs'[r].response.status = 200
               /\ reqs'[r].credentials = get_device_credentials(reqs'[r].response)
               /\ reqs'[r].request.url = RD_OAUTH_BASE \o "/token"
               /\ reqs'[r].device_code = reqs[r].device_code
               /\ ~Completes
            \/ /\ reqs[r].pc = "get_access_token"
               /\ reqs'[r].pc = "idle"
               /\ Completes
               /\ Last.poll = reqs[r].response
               /\ Last.exchange # NoResponse]_vars

\* one invocation returned after the call of /device/credentials alone,
\* another after a rejected call of /token
C18_Witness ==
    \E i, j \in 1..Len(checkLog) :
        /\ checkLog[i].poll.status # 200
        /\ checkLog[i].exchange = NoResponse
        /\ checkLog[j].poll.status = 200
        /\ checkLog[j].exchange.status = 403
        /\ \A r \in Reqs : reqs[r].op # "oauth_check"

\* C19: the record a successful oauth_check stores holds the client_id
\* and client_secret that /device/credentials returned to that invocation
\* for its device code, which is not DEFAULT_CLIENT_ID; every stored
\* record holds the credentials the provider issued for one device code;
\* and every refresh call is sent with the clientId, the clientSecret and
\* the refreshToken the record of the session holds when the call is
\* issued.
C19_RecordCredentials ==
    [][/\ (Completes /\ Last.result.status = "authorized") =>
            LET record == user_tokens'[Last.result.session_id]
            IN  /\ record.clientId = Last.poll.body.client_id
                /\ record.clientSecret = Last.poll.body.client_secret
                /\ record.clientId = ClientIdOf(Last.device_code)
                /\ record.clientId # DEFAULT_CLIENT_ID
       /\ \A s \in DOMAIN user_tokens' : \E d \in Devices :
            /\ user_tokens'[s].clientId = ClientIdOf(d)
            /\ user_tokens'[s].clientSecret = ClientSecretOf(d)
       /\ \A r \in Reqs :
            (reqs[r].pc = "idle" /\ reqs'[r].pc = "refresh_access_token") =>
                LET record == user_tokens[reqs'[r].session_id]
                    request == reqs'[r].request
                IN  /\ request.url = RD_OAUTH_BASE \o "/token"
                    /\ request.client_id = record.clientId
                    /\ request.client_secret = record.clientSecret
                    /\ request.code = record.refreshToken]_vars

\* a refresh call is in flight for a session of the second device code,
\* with the credentials of that device code
C19_Witness ==
    \E r \in Reqs :
        /\ reqs[r].pc = "refresh_access_token"
        /\ reqs[r].request.client_id = ClientIdOf(2)
        /\ reqs[r].request.client_secret = ClientSecretOf(2)
        /\ user_tokens[reqs[r].session_id].clientId = ClientIdOf(2)
        /\ reqs[r].request.code = user_tokens[reqs[r].session_id].refreshToken

====
